---- MODULE Spec2Model ----
(***************************************************************************)
(* State-machine model of scripts/generate_homepage_figures.py.            *)
(*                                                                         *)
(* The script is a straight-line program: __main__ prints a banner, calls  *)
(* create_hero_image and create_measurement_image, and prints "Done!".     *)
(* The model keeps the interpreter position (pc), the global random        *)
(* generator of numpy, pyplot's stack of open figures, the file system,    *)
(* standard output, and the local arrays of each routine.                  *)
(*                                                                         *)
(* Real numbers are fixed-point integers in units of 1/Scale.  Array sizes *)
(* that the script fixes at 200, 10000, 40, 400 and 800 are scaled down to *)
(* the bounds below; strides, window sizes, seeds, figure settings and the *)
(* Lorenz parameters keep the values of the source.                        *)
(***************************************************************************)
EXTENDS Integers, Sequences, FiniteSets, TLC

\* ------------------------------------------------------------------ bounds

\* fixed-point resolution: a real r is the integer r * Scale
Scale == 1000
\* number of states of the modelled random generator
RngMod == 5
\* stands for n_points = 200 scatter points (line 65)
NScatter == 3
\* stands for the 10000 points asked of generate_lorenz_attractor (line 82)
NLorenz == 18
\* stands for n_trajectories = 40 (line 137)
NTraj == 3
\* stands for the 400 samples of one torus trajectory (line 143)
NTorusPts == 3
\* stands for the 800 samples of the projected signals (line 173)
NProj == 3
\* largest n_points tried when the argument of line 82 is left free
MaxN == 26
\* number of consecutive executions of the script in one behaviour
MaxRuns == 2

\* ------------------------------------------------------- program constants

SEED == 42
STRIDE == 8
\* a window no longer than the stride
WindowEqualsStride == STRIDE
WINDOW == 10
DPI == 150
FIG_W == 16
FIG_H == 9

BLACK == "#000000"
WHITE == "#f1f5f9"
GRAY == "#6b7280"
RED == "#ef4444"
GREEN == "#22c55e"
ORANGE == "#f97316"
CYAN == "#06b6d4"

HeroPath == "../public/images/high-dimensional-coherence.png"
MeasPath == "../public/images/measurement-changes-system.png"
\* a file of the site that the script never names
OtherPath == "../public/index.html"
Paths == {HeroPath, MeasPath, OtherPath}
\* file contents: no file, a file left by something else, or a rendered image
Absent == [kind |-> "absent"]
OldContent == [kind |-> "old"]

\* ------------------------------------------------------------- arithmetic

Min(a, b) == IF a < b THEN a ELSE b

\* the decimal literal num/den
Dec(num, den) == (num * Scale) \div den
\* float multiplication
Mul(a, b) == (a * b) \div Scale
\* float division
Div(a, b) == (a * Scale) \div b

\* Python index into an array (0-based)
At(a, i) == a[i + 1]
\* Python slice a[i:j], clipped to the array's end
Slice(a, i, j) == SubSeq(a, i + 1, Min(j, Len(a)))
\* an allocation one element too long
ZerosOneMore(n) == [k \in 1..(n + 1) |-> 0]
\* np.zeros(n)
Zeros(n) == [k \in 1..n |-> 0]
\* np.linspace(a, b, num)
Linspace(a, b, num) ==
    [k \in 1..num |-> IF num = 1 THEN a ELSE a + ((k - 1) * (b - a)) \div (num - 1)]

PI == Dec(355, 113)
\* np.sin on one element: range reduction to [0, 2 pi), then Bhaskara's
\* rational approximation on a half period
SinHalf(u) == Div(16 * Mul(u, PI - u), 5 * Mul(PI, PI) - 4 * Mul(u, PI - u))
Sin(v) ==
    LET w == v % (2 * PI)
    IN  IF w <= PI THEN SinHalf(w) ELSE 0 - SinHalf(w - PI)
\* np.cos on one element
Cos(v) == Sin(v + PI \div 2)

\* ------------------------------------------------------ random generator

RngStates == 0..(RngMod - 1)
\* np.random.seed(k): the state depends on k alone
SeedState(k) == k % RngMod
\* the generator's state after n draws
RngAfter(s, n) == (s + n) % RngMod
\* one standard-normal sample, read off the generator's state
Normal(u) == ((2 * u + 1 - RngMod) * Scale) \div 2
\* np.random.randn(n) drawn from state s
Randn(s, n) == [k \in 1..n |-> Normal((s + k - 1) % RngMod)]
\* np.random.uniform(lo, hi, n) drawn from state s
Uniform(lo, hi, s, n) ==
    [k \in 1..n |-> lo + ((hi - lo) * ((s + k - 1) % RngMod)) \div RngMod]

\* ------------------------------------------------------------------ state

VARIABLES
    pc,          \* the statement the interpreter executes next
    status,      \* "running", "exited" (normal end) or "crashed" (uncaught exception)
    calls,       \* the routines the caller invokes, in order
    ci,          \* index in calls of the routine being run
    run,         \* number of the current execution of the script
    lorenz_arg,  \* the argument passed to generate_lorenz_attractor at line 82
    dirExists,   \* whether ../public/images exists
    rng,         \* state of numpy's global random generator
    fs,          \* the file system: path -> content
    figs,        \* pyplot's open figures, the current one last
    out,         \* standard output of this execution
    trace,       \* the steps this execution has taken: <<routine, kind, label>>
    handed,      \* the artists this execution handed to the plotting library
    written,     \* the paths this execution has written
    n_points, li, x, y, z,                                 \* generate_lorenz_attractor
    hero_x, hero_y, colors, sizes, lx, ly, lz, t, hi,      \* create_hero_image
    mi, t_proj, signal1, signal2,                          \* create_measurement_image
    fs0,         \* the file system when this execution started
    prevStatus,  \* how the previous execution ended ("none" in the first)
    prevHanded,  \* the artists the previous execution handed over
    prevFs,      \* the file system the previous execution left
    prevWritten  \* the paths written by earlier executions

lorenzVars == <<n_points, li, x, y, z>>
heroVars == <<hero_x, hero_y, colors, sizes, lx, ly, lz, t, hi>>
measVars == <<mi, t_proj, signal1, signal2>>
callVars == <<calls, ci, run, lorenz_arg, dirExists>>
histVars == <<fs0, prevStatus, prevHanded, prevFs, prevWritten>>
vars == <<pc, status, rng, fs, figs, out, trace, handed, written,
          lorenzVars, heroVars, measVars, callVars, histVars>>

\* the two calls in the opposite order
MainCallsSwapped == <<"measurement", "hero">>
\* the script's own call order
MainCalls == <<"hero", "measurement">>
\* every order in which a caller may invoke the two routines
Orders == {<<"hero">>, <<"measurement">>, <<"hero", "measurement">>,
           <<"measurement", "hero">>}

\* the file systems an execution may start from
InitialFs(dir) ==
    {f \in [Paths -> {Absent, OldContent}] :
        /\ f[OtherPath] = OldContent
        /\ ~dir => (f[HeroPath] = Absent /\ f[MeasPath] = Absent)}

\* the interpreter's state when a process starts
Fresh ==
    /\ pc = "m227"
    /\ status = "running"
    /\ ci = 0
    /\ figs = <<>>
    /\ out = <<>>
    /\ trace = <<>>
    /\ handed = <<>>
    /\ written = {}
    /\ n_points = 0 /\ li = 0 /\ x = <<>> /\ y = <<>> /\ z = <<>>
    /\ hero_x = <<>> /\ hero_y = <<>> /\ colors = <<>> /\ sizes = <<>>
    /\ lx = <<>> /\ ly = <<>> /\ lz = <<>> /\ t = <<>> /\ hi = 0
    /\ mi = 0 /\ t_proj = <<>> /\ signal1 = <<>> /\ signal2 = <<>>

NoHistory ==
    /\ prevStatus = "none"
    /\ prevHanded = <<>>
    /\ prevFs = fs
    /\ prevWritten = {}
    /\ fs0 = fs

\* python generate_homepage_figures.py, from any generator state and file system
Init ==
    /\ Fresh
    /\ run = 1
    /\ calls = MainCalls
    /\ lorenz_arg = NLorenz
    /\ dirExists \in BOOLEAN
    /\ rng \in RngStates
    /\ fs \in InitialFs(dirExists)
    /\ NoHistory

\* ---------------------------------------------------------------- helpers

\* one statement group: from label a to label b, logged as the kinds ks
Do(a, b, r, ks) ==
    /\ status = "running"
    /\ pc = a
    /\ pc' = b
    /\ trace' = trace \o [k \in 1..Len(ks) |-> <<r, ks[k], a>>]
    /\ UNCHANGED status

\* plt.figure(figsize=(16, 9), facecolor=BLACK)
NewFigure == [size |-> <<FIG_W, FIG_H>>, face |-> BLACK, artists |-> <<>>]
\* an artist list added to the current figure
Draw(fs_, as) ==
    [fs_ EXCEPT ![Len(fs_)].artists = fs_[Len(fs_)].artists \o as]
\* what savefig(dpi=150, facecolor=BLACK, bbox_inches='tight', pad_inches=0.2) writes
Render(f) ==
    [kind |-> "png", size |-> f.size, dpi |-> DPI, face |-> BLACK, bbox |-> "tight",
     pad |-> Dec(2, 10), artists |-> f.artists]
\* plt.savefig acts on the current figure and makes one when none is open
Gcf(fs_) == IF fs_ = <<>> THEN <<NewFigure>> ELSE fs_
\* a close that leaves the figure open
CloseNothing(fs_) == fs_
\* plt.close() closes the current figure
Close(fs_) == IF fs_ = <<>> THEN fs_ ELSE SubSeq(fs_, 1, Len(fs_) - 1)

\* the artists ks, drawn into the current figure by routine r
Plot(r, as) ==
    /\ figs' = Draw(figs, as)
    /\ handed' = handed \o [k \in 1..Len(as) |-> <<r, as[k]>>]

Text(xp, yp, s, size, color) ==
    [kind |-> "text", at |-> <<xp, yp>>, s |-> s, size |-> size, color |-> color]
Axes(rect, proj) == [kind |-> "axes", rect |-> rect, proj |-> proj, face |-> BLACK]
\* an RGBA colour (34/255 * v, 197/255 * v, 94/255 * v, a)
Green(v, a) == <<Mul(Div(34 * Scale, 255 * Scale), v), Mul(Div(197 * Scale, 255 * Scale), v),
                 Mul(Div(94 * Scale, 255 * Scale), v), a>>

\* ----------------------------------------------- generate_lorenz_attractor

dt == Dec(1, 100)
sigma == 10 * Scale
rho == 28 * Scale
beta == Div(8 * Scale, 3 * Scale)

\* lines 37-38 of the call at line 82: allocate and set the initial point
LorenzAlloc ==
    /\ Do("h82", "l40", "hero", <<"generate">>)
    /\ lorenz_arg >= 1
    /\ n_points' = lorenz_arg
    /\ x' = [Zeros(lorenz_arg) EXCEPT ![1] = Scale]
    /\ y' = [Zeros(lorenz_arg) EXCEPT ![1] = Scale]
    /\ z' = [Zeros(lorenz_arg) EXCEPT ![1] = Scale]
    /\ li' = 1
    /\ UNCHANGED <<rng, fs, figs, out, handed, written, heroVars, measVars,
                   callVars, histVars>>

\* the three assignments of one loop iteration, in program order
\* (EulerYNewX: the y update reading the x of the step being computed)
EulerX(x_, y_, z_, i) ==
    [x_ EXCEPT ![i + 1] = At(x_, i - 1) + Mul(Mul(dt, sigma), At(y_, i - 1) - At(x_, i - 1))]
EulerYNewX(x_, y_, z_, i) ==
    [y_ EXCEPT ![i + 1] = At(y_, i - 1)
        + Mul(dt, Mul(At(x_, i), rho - At(z_, i - 1)) - At(y_, i - 1))]
EulerY(x_, y_, z_, i) ==
    [y_ EXCEPT ![i + 1] = At(y_, i - 1)
        + Mul(dt, Mul(At(x_, i - 1), rho - At(z_, i - 1)) - At(y_, i - 1))]
EulerZ(x_, y_, z_, i) ==
    [z_ EXCEPT ![i + 1] = At(z_, i - 1)
        + Mul(dt, Mul(At(x_, i - 1), At(y_, i - 1)) - Mul(beta, At(z_, i - 1)))]

\* lines 40-43: one iteration of the loop
LorenzStep ==
    /\ Do("l40", "l40", "hero", <<"generate">>)
    /\ li < n_points
    /\ LET x1 == EulerX(x, y, z, li)
           y1 == EulerY(x1, y, z, li)
           z1 == EulerZ(x1, y1, z, li)
       IN  /\ x' = x1
           /\ y' = y1
           /\ z' = z1
    /\ li' = li + 1
    /\ UNCHANGED <<n_points, rng, fs, figs, out, handed, written, heroVars, measVars,
                   callVars, histVars>>

\* line 45 and the assignment of line 82
LorenzReturn ==
    /\ Do("l40", "h85", "hero", <<"return">>)
    /\ li >= n_points
    /\ lx' = x /\ ly' = y /\ lz' = z
    /\ n_points' = 0 /\ li' = 0 /\ x' = <<>> /\ y' = <<>> /\ z' = <<>>
    /\ UNCHANGED <<hero_x, hero_y, colors, sizes, t, hi>>
    /\ UNCHANGED <<rng, fs, figs, out, handed, written, measVars, callVars, histVars>>

\* x[0] = 1.0 on an empty array raises IndexError
LorenzIndexError ==
    /\ status = "running"
    /\ pc = "h82"
    /\ lorenz_arg = 0
    /\ status' = "crashed"
    /\ trace' = Append(trace, <<"hero", "raise", pc>>)
    /\ UNCHANGED <<pc, rng, fs, figs, out, handed, written,
                   lorenzVars, heroVars, measVars, callVars, histVars>>

\* ------------------------------------------------------ create_hero_image

\* line 54
HeroFigure ==
    /\ Do("h54", "h62", "hero", <<"figure">>)
    /\ figs' = Append(figs, NewFigure)
    /\ UNCHANGED <<rng, fs, out, handed, written, lorenzVars, heroVars, measVars,
                   callVars, histVars>>

\* line 62
HeroAxes1 ==
    /\ Do("h62", "h64", "hero", <<"axes">>)
    /\ Plot("hero", <<Axes(<<3, 12, 44, 62>>, "2d")>>)
    /\ UNCHANGED <<rng, fs, out, written, lorenzVars, heroVars, measVars,
                   callVars, histVars>>

\* the hero image without its reseeding
HeroSeedSkipped ==
    /\ Do("h64", "h65", "hero", <<"seed">>)
    /\ UNCHANGED <<rng, fs, figs, out, handed, written, lorenzVars, heroVars, measVars,
                   callVars, histVars>>

\* line 64: np.random.seed(42)
HeroSeed ==
    /\ Do("h64", "h65", "hero", <<"seed">>)
    /\ rng' = SeedState(SEED)
    /\ UNCHANGED <<fs, figs, out, handed, written, lorenzVars, heroVars, measVars,
                   callVars, histVars>>

\* lines 65-72: the scatter's coordinates, colours and sizes
HeroScatterData ==
    /\ Do("h65", "h74", "hero", <<"random">>)
    /\ hero_x' = [k \in 1..NScatter |-> Mul(Randn(rng, NScatter)[k], Dec(9, 10))]
    /\ hero_y' = [k \in 1..NScatter |->
                    Mul(Randn(RngAfter(rng, NScatter), NScatter)[k], Dec(9, 10))]
    /\ colors' = [k \in 1..NScatter |-> <<"Set1", (k - 1) % 9>>]
    /\ sizes' = Uniform(30 * Scale, 100 * Scale, RngAfter(rng, 2 * NScatter), NScatter)
    /\ rng' = RngAfter(rng, 3 * NScatter)
    /\ UNCHANGED <<lx, ly, lz, t, hi>>
    /\ UNCHANGED <<fs, figs, out, handed, written, lorenzVars, measVars,
                   callVars, histVars>>

\* lines 74-77
HeroScatter ==
    /\ Do("h74", "h80", "hero", <<"draw">>)
    /\ Plot("hero", <<[kind |-> "scatter", xs |-> hero_x, ys |-> hero_y,
                       c |-> colors, s |-> sizes, alpha |-> Dec(7, 10)]>>)
    /\ UNCHANGED <<rng, fs, out, written, lorenzVars, heroVars, measVars,
                   callVars, histVars>>

\* line 80
HeroAxes2 ==
    /\ Do("h80", "h82", "hero", <<"axes">>)
    /\ Plot("hero", <<Axes(<<53, 12, 44, 62>>, "2d")>>)
    /\ UNCHANGED <<rng, fs, out, written, lorenzVars, heroVars, measVars,
                   callVars, histVars>>

\* line 85: t = np.linspace(0, 1, len(lx)), and the loop variable of line 86
HeroTime ==
    /\ Do("h85", "h86", "hero", <<"generate">>)
    /\ t' = Linspace(0, Scale, Len(lx))
    /\ hi' = 0
    /\ UNCHANGED <<hero_x, hero_y, colors, sizes, lx, ly, lz>>
    /\ UNCHANGED <<rng, fs, figs, out, handed, written, lorenzVars, measVars,
                   callVars, histVars>>

\* line 88
Intensity(t_, i) == Dec(4, 10) + Mul(Dec(6, 10), At(t_, i))
\* lines 89-90: the segment drawn by the iteration with loop variable i
Segment(lx_, ly_, t_, i) ==
    [kind |-> "line", from |-> i, shade |-> Intensity(t_, i),
     xs |-> Slice(lx_, i, i + WINDOW), ys |-> Slice(ly_, i, i + WINDOW),
     color |-> Green(Intensity(t_, i), Dec(8, 10)), width |-> Scale]
\* a loop variable that does not advance
HeroNextIndexStuck(i) == i
\* line 86: for i in range(0, len(lx)-1, 8)
HeroNextIndex(i) == i + STRIDE

\* lines 86-90: one iteration of the drawing loop
HeroSegment ==
    /\ Do("h86", "h86", "hero", <<"draw">>)
    /\ hi < Len(lx) - 1
    /\ Plot("hero", <<Segment(lx, ly, t, hi)>>)
    /\ hi' = HeroNextIndex(hi)
    /\ UNCHANGED <<hero_x, hero_y, colors, sizes, lx, ly, lz, t>>
    /\ UNCHANGED <<rng, fs, out, written, lorenzVars, measVars, callVars, histVars>>

\* the loop of line 86 is exhausted; lines 92-94
HeroLimits ==
    /\ Do("h86", "h97", "hero", <<"axes">>)
    /\ hi >= Len(lx) - 1
    /\ UNCHANGED <<rng, fs, figs, out, handed, written, lorenzVars, heroVars, measVars,
                   callVars, histVars>>

\* lines 97-110
HeroText ==
    /\ Do("h97", "h112", "hero", <<"annotate">>)
    /\ Plot("hero",
            <<Text(25, 88, "BITS", 64, RED),
              Text(25, 82, "Discrete  .  Isolated  .  O(n) cost", 32, RED),
              Text(75, 88, "DYNAMICS", 64, GREEN),
              Text(75, 82, "Continuous  .  Coherent  .  O(1) cost", 32, GREEN),
              Text(50, 4, "High-dimensional systems are coherent systems. Bits are not.",
                   26, WHITE)>>)
    /\ UNCHANGED <<rng, fs, out, written, lorenzVars, heroVars, measVars,
                   callVars, histVars>>

\* a save that always names the hero image's path
SaveToHero(path) ==
    /\ dirExists
    /\ figs' = Gcf(figs)
    /\ fs' = [fs EXCEPT ![HeroPath] = Render(Gcf(figs)[Len(Gcf(figs))])]
    /\ written' = written \cup {HeroPath}

\* lines 112-113 and 220-221: plt.savefig(path, dpi=150, ...)
SaveTo(path) ==  \* the current figure is rendered into the file at path
    /\ dirExists
    /\ figs' = Gcf(figs)
    /\ fs' = [fs EXCEPT ![path] = Render(Gcf(figs)[Len(Gcf(figs))])]
    /\ written' = written \cup {path}

HeroSave ==
    /\ Do("h112", "h114", "hero", <<"save">>)
    /\ SaveTo(HeroPath)
    /\ UNCHANGED <<rng, out, handed, lorenzVars, heroVars, measVars, callVars, histVars>>

\* lines 114 and 222: plt.close()
CloseCurrent == figs' = Close(figs)

HeroClose ==
    /\ Do("h114", "h115", "hero", <<"close">>)
    /\ CloseCurrent
    /\ UNCHANGED <<rng, fs, out, handed, written, lorenzVars, heroVars, measVars,
                   callVars, histVars>>

\* line 115, and the return to the caller
HeroPrint ==
    /\ Do("h115", "call", "hero", <<"print">>)
    /\ out' = Append(out, "Created: high-dimensional-coherence.png")
    /\ ci' = ci + 1
    /\ UNCHANGED <<calls, run, lorenz_arg, dirExists>>
    /\ UNCHANGED <<rng, fs, figs, handed, written, lorenzVars, heroVars, measVars,
                   histVars>>

\* ----------------------------------------------- create_measurement_image

R_major == Dec(22, 10)
r_minor == Dec(8, 10)

\* line 124
MeasFigure ==
    /\ Do("g124", "g132", "measurement", <<"figure">>)
    /\ figs' = Append(figs, NewFigure)
    /\ UNCHANGED <<rng, fs, out, handed, written, lorenzVars, heroVars, measVars,
                   callVars, histVars>>

\* line 132, and the loop variable of line 138
MeasAxes1 ==
    /\ Do("g132", "g138", "measurement", <<"axes">>)
    /\ Plot("measurement", <<Axes(<<3, 12, 42, 62>>, "3d")>>)
    /\ mi' = 0
    /\ UNCHANGED <<t_proj, signal1, signal2>>
    /\ UNCHANGED <<rng, fs, out, written, lorenzVars, heroVars, callVars, histVars>>

\* line 152
Brightness(i) == Dec(5, 10) + Mul(Dec(5, 10), Div(i * Scale, NTraj * Scale))
\* lines 140-155: the trajectory of iteration i
Trajectory(i) ==
    LET phase_u == (i * 2 * PI) \div NTraj
        phase_v == i * Dec(3, 10)
        tt == Linspace(0, 6 * PI, NTorusPts)
        traj_u == [k \in 1..Len(tt) |-> tt[k] + phase_u]
        traj_v == [k \in 1..Len(tt) |-> Mul(tt[k], Dec(618, 1000)) + phase_v]
        ring == [k \in 1..Len(traj_v) |-> R_major + Mul(r_minor, Cos(traj_v[k]))]
    IN  [kind |-> "line3d", from |-> i, shade |-> Brightness(i),
         xs |-> [k \in 1..Len(ring) |-> Mul(ring[k], Cos(traj_u[k]))],
         ys |-> [k \in 1..Len(ring) |-> Mul(ring[k], Sin(traj_u[k]))],
         zs |-> [k \in 1..Len(traj_v) |-> Mul(r_minor, Sin(traj_v[k]))],
         color |-> Green(Brightness(i), Dec(7, 10)), width |-> Dec(8, 10)]

\* lines 138-155: one iteration of the torus loop
MeasTrajectory ==
    /\ Do("g138", "g138", "measurement", <<"generate", "draw">>)
    /\ mi < NTraj
    /\ Plot("measurement", <<Trajectory(mi)>>)
    /\ mi' = mi + 1
    /\ UNCHANGED <<t_proj, signal1, signal2>>
    /\ UNCHANGED <<rng, fs, out, written, lorenzVars, heroVars, callVars, histVars>>

\* the loop of line 138 is exhausted; lines 157-166
MeasView ==
    /\ Do("g138", "g169", "measurement", <<"axes">>)
    /\ mi >= NTraj
    /\ UNCHANGED <<rng, fs, figs, out, handed, written, lorenzVars, heroVars, measVars,
                   callVars, histVars>>

\* line 169
MeasAxes2 ==
    /\ Do("g169", "g172", "measurement", <<"axes">>)
    /\ Plot("measurement", <<Axes(<<55, 12, 42, 62>>, "2d")>>)
    /\ UNCHANGED <<rng, fs, out, written, lorenzVars, heroVars, measVars,
                   callVars, histVars>>

\* the measurement image without its reseeding
MeasSeedSkipped ==
    /\ Do("g172", "g173", "measurement", <<"seed">>)
    /\ UNCHANGED <<rng, fs, figs, out, handed, written, lorenzVars, heroVars, measVars,
                   callVars, histVars>>

\* line 172: np.random.seed(42)
MeasSeed ==
    /\ Do("g172", "g173", "measurement", <<"seed">>)
    /\ rng' = SeedState(SEED)
    /\ UNCHANGED <<fs, figs, out, handed, written, lorenzVars, heroVars, measVars,
                   callVars, histVars>>

\* lines 173-177: the two noiseless projections
MeasSignals ==
    /\ Do("g173", "g180", "measurement", <<"generate">>)
    /\ LET tp == Linspace(0, 10 * PI, NProj)
       IN  /\ t_proj' = tp
           /\ signal1' = [k \in 1..Len(tp) |->
                            Sin(tp[k]) + Mul(Dec(3, 10), Sin(3 * tp[k]))]
           /\ signal2' = [k \in 1..Len(tp) |->
                            Cos(Mul(tp[k], Dec(618, 1000))) + Mul(Dec(2, 10), Cos(2 * tp[k]))]
    /\ UNCHANGED mi
    /\ UNCHANGED <<rng, fs, figs, out, handed, written, lorenzVars, heroVars,
                   callVars, histVars>>

\* lines 180-181: measurement noise
MeasNoise ==
    /\ Do("g180", "g183", "measurement", <<"random">>)
    /\ signal1' = [k \in 1..Len(signal1) |->
                     signal1[k] + Mul(Dec(1, 10), Randn(rng, Len(t_proj))[k])]
    /\ signal2' = [k \in 1..Len(signal2) |->
                     signal2[k]
                     + Mul(Dec(1, 10), Randn(RngAfter(rng, Len(t_proj)), Len(t_proj))[k])]
    /\ rng' = RngAfter(rng, 2 * Len(t_proj))
    /\ UNCHANGED <<mi, t_proj>>
    /\ UNCHANGED <<fs, figs, out, handed, written, lorenzVars, heroVars,
                   callVars, histVars>>

\* lines 183-191
MeasPlot ==
    /\ Do("g183", "g194", "measurement", <<"draw">>)
    /\ Plot("measurement",
            <<[kind |-> "line", from |-> 0, xs |-> t_proj,
               ys |-> [k \in 1..Len(signal1) |-> signal1[k] + Dec(25, 10)],
               color |-> CYAN, width |-> Dec(12, 10)],
              [kind |-> "line", from |-> 0, xs |-> t_proj,
               ys |-> [k \in 1..Len(signal2) |-> signal2[k] - Dec(5, 10)],
               color |-> ORANGE, width |-> Dec(12, 10)],
              [kind |-> "hline", at |-> Scale, color |-> GRAY]>>)
    /\ UNCHANGED <<rng, fs, out, written, lorenzVars, heroVars, measVars,
                   callVars, histVars>>

\* lines 194-218
MeasText ==
    /\ Do("g194", "g220", "measurement", <<"annotate">>)
    /\ Plot("measurement",
            <<Text(24, 88, "DYNAMICS", 64, GREEN),
              Text(24, 83, "High-dimensional  .  Coherent", 32, GREEN),
              Text(76, 88, "OBSERVATIONS", 64, ORANGE),
              Text(76, 83, "Low-dimensional  .  Projected", 32, ORANGE),
              [kind |-> "arrow", from |-> <<46, 50>>, to |-> <<53, 50>>, color |-> GRAY],
              Text(49, 56, "MEASURE", 14, GRAY),
              Text(50, 4, "Structure is lost in projection. The map is not the territory.",
                   26, WHITE)>>)
    /\ UNCHANGED <<rng, fs, out, written, lorenzVars, heroVars, measVars,
                   callVars, histVars>>

\* lines 220-221
MeasSave ==
    /\ Do("g220", "g222", "measurement", <<"save">>)
    /\ SaveTo(MeasPath)
    /\ UNCHANGED <<rng, out, handed, lorenzVars, heroVars, measVars, callVars, histVars>>

\* line 222
MeasClose ==
    /\ Do("g222", "g223", "measurement", <<"close">>)
    /\ CloseCurrent
    /\ UNCHANGED <<rng, fs, out, handed, written, lorenzVars, heroVars, measVars,
                   callVars, histVars>>

\* line 223, and the return to the caller
MeasPrint ==
    /\ Do("g223", "call", "measurement", <<"print">>)
    /\ out' = Append(out, "Created: measurement-changes-system.png")
    /\ ci' = ci + 1
    /\ UNCHANGED <<calls, run, lorenz_arg, dirExists>>
    /\ UNCHANGED <<rng, fs, figs, handed, written, lorenzVars, heroVars, measVars,
                   histVars>>

\* ----------------------------------------------------------------- __main__

\* line 227
MainStart ==
    /\ Do("m227", "call", "main", <<"print">>)
    /\ out' = Append(out, "Generating homepage figures...")
    /\ ci' = 1
    /\ UNCHANGED <<calls, run, lorenz_arg, dirExists>>
    /\ UNCHANGED <<rng, fs, figs, handed, written, lorenzVars, heroVars, measVars,
                   histVars>>

\* the entry label of a routine
Entry(r) == IF r = "hero" THEN "h54" ELSE "g124"

\* lines 228-229: the next call
MainCall ==
    /\ ci <= Len(calls)
    /\ Do("call", Entry(calls[ci]), "main", <<"call">>)
    /\ UNCHANGED <<rng, fs, figs, out, handed, written, lorenzVars, heroVars, measVars,
                   callVars, histVars>>

\* line 230, and the end of the process
MainDone ==
    /\ status = "running"
    /\ pc = "call"
    /\ ci > Len(calls)
    /\ pc' = "end"
    /\ status' = "exited"
    /\ trace' = Append(trace, <<"main", "done", pc>>)
    /\ out' = Append(out, "Done!")
    /\ UNCHANGED <<rng, fs, figs, handed, written, lorenzVars, heroVars, measVars,
                   callVars, histVars>>

\* --------------------------------------------------------------- failures

\* the routine a label belongs to
RoutineOf(l) ==
    IF l \in {"m227", "call", "end"} THEN "main"
    ELSE IF l \in {"g124", "g132", "g138", "g169", "g172", "g173", "g180", "g183",
                   "g194", "g220", "g222", "g223"} THEN "measurement"
    ELSE "hero"

\* an exception that is swallowed: the caller goes on with its next call
UncaughtSwallowed ==
    /\ pc' = "call"
    /\ ci' = ci + 1
    /\ trace' = Append(trace, <<RoutineOf(pc), "raise", pc>>)
    /\ UNCHANGED <<status, rng, fs, figs, out, handed, written,
                   lorenzVars, heroVars, measVars, histVars,
                   calls, run, lorenz_arg, dirExists>>

\* what an uncaught exception does to the interpreter: the process ends
Uncaught ==
    /\ status' = "crashed"
    /\ trace' = Append(trace, <<RoutineOf(pc), "raise", pc>>)
    /\ UNCHANGED <<pc, rng, fs, figs, out, handed, written,
                   lorenzVars, heroVars, measVars, callVars, histVars>>

\* the statement at pc raises (a library error); nothing in the script catches it
Raise ==
    /\ status = "running"
    /\ Uncaught

\* savefig raises FileNotFoundError when the output directory is missing
SaveFails ==
    /\ status = "running"
    /\ pc \in {"h112", "g220"}
    /\ ~dirExists
    /\ Uncaught

\* ------------------------------------------------------------- executions

\* a new process: nothing survives but the file system
NewProcess ==
    /\ status \in {"exited", "crashed"}
    /\ run < MaxRuns
    /\ run' = run + 1
    /\ pc' = "m227"
    /\ status' = "running"
    /\ ci' = 0
    /\ figs' = <<>>
    /\ out' = <<>>
    /\ trace' = <<>>
    /\ handed' = <<>>
    /\ written' = {}
    /\ n_points' = 0 /\ li' = 0 /\ x' = <<>> /\ y' = <<>> /\ z' = <<>>
    /\ hero_x' = <<>> /\ hero_y' = <<>> /\ colors' = <<>> /\ sizes' = <<>>
    /\ lx' = <<>> /\ ly' = <<>> /\ lz' = <<>> /\ t' = <<>> /\ hi' = 0
    /\ mi' = 0 /\ t_proj' = <<>> /\ signal1' = <<>> /\ signal2' = <<>>
    /\ rng' \in RngStates
    /\ prevStatus' = status
    /\ prevHanded' = handed
    /\ prevFs' = fs
    /\ prevWritten' = prevWritten \cup written
    /\ fs0' = fs
    /\ UNCHANGED <<fs, lorenz_arg, dirExists>>

\* the script is run again
RunAgain ==
    /\ NewProcess
    /\ calls' = MainCalls

\* the routines are called again, in any order
CallAgain ==
    /\ NewProcess
    /\ calls' \in Orders

\* the statements of the three routines
Step ==
    \/ MainStart \/ MainCall \/ MainDone
    \/ HeroFigure \/ HeroAxes1 \/ HeroSeed \/ HeroScatterData \/ HeroScatter
    \/ HeroAxes2 \/ LorenzAlloc \/ LorenzStep \/ LorenzReturn \/ HeroTime
    \/ HeroSegment \/ HeroLimits \/ HeroText \/ HeroSave \/ HeroClose \/ HeroPrint
    \/ MeasFigure \/ MeasAxes1 \/ MeasTrajectory \/ MeasView \/ MeasAxes2
    \/ MeasSeed \/ MeasSignals \/ MeasNoise \/ MeasPlot \/ MeasText
    \/ MeasSave \/ MeasClose \/ MeasPrint

Next == Step \/ Raise \/ SaveFails \/ RunAgain

Spec == Init /\ [][Next]_vars

\* the interpreter executes the next statement; a save into a missing directory
\* raises at once.  Other failures may or may not happen.
LiveSpec == Init /\ [][Next]_vars /\ WF_vars(Step \/ SaveFails)

\* the script with the argument of line 82 left free
InitGen ==
    /\ Fresh
    /\ run = 1
    /\ calls = MainCalls
    /\ lorenz_arg \in 0..MaxN
    /\ dirExists = TRUE
    /\ rng \in RngStates
    /\ fs = [p \in Paths |-> OldContent]
    /\ NoHistory

NextGen == Step \/ LorenzIndexError

GenSpec == InitGen /\ [][NextGen]_vars

\* a caller that invokes the two routines in any order, process after process
InitAny ==
    /\ Fresh
    /\ run = 1
    /\ calls \in Orders
    /\ lorenz_arg = NLorenz
    /\ dirExists = TRUE
    /\ rng \in RngStates
    /\ fs \in InitialFs(TRUE)
    /\ NoHistory

NextAny == Step \/ CallAgain

AnySpec == InitAny /\ [][NextAny]_vars

\* ================================================================ claims

Idx == 1..Len(trace)
Rtn(i) == trace[i][1]
Kind(i) == trace[i][2]
\* whether the execution has taken step e
Took(e) == \E i \in Idx : trace[i] = e
\* how many times the execution has taken step e
Count(e) == Cardinality({i \in Idx : trace[i] = e})
\* whether s is printed
Printed(s) == \E i \in 1..Len(out) : out[i] = s
Outputs == {HeroPath, MeasPath}
Routines == {"hero", "measurement"}
\* the ranks of the steps of routine r, in the order taken, steps of rank 0 left out
Ranks(r, Rank(_)) ==
    LET own == SelectSeq(trace, LAMBDA e : e[1] = r /\ Rank(e[2]) > 0)
    IN  [i \in 1..Len(own) |-> Rank(own[i][2])]
Monotone(s) == \A i \in 1..(Len(s) - 1) : s[i] <= s[i + 1]
\* whether two logs agree as far as both go
Agree(a, b) == \A k \in 1..Min(Len(a), Len(b)) : a[k] = b[k]

\* ---- C1
\* generate -> draw -> annotate -> save -> close as five separate phases
StrictRank(k) ==
    CASE k \in {"seed", "random", "generate"} -> 1
      [] k = "draw" -> 2
      [] k = "annotate" -> 3
      [] k = "save" -> 4
      [] k = "close" -> 5
      [] OTHER -> 0
\* generating and drawing as one building phase
PanelRank(k) ==
    CASE k \in {"seed", "random", "generate", "draw"} -> 1
      [] k = "annotate" -> 2
      [] k = "save" -> 3
      [] k = "close" -> 4
      [] OTHER -> 0
\* the hero image is complete before the measurement image starts, and
\* "Done!" follows both saves
ImagesInOrder ==
    /\ \A i \in Idx : Rtn(i) = "measurement" =>
          \E j \in 1..(i - 1) : trace[j] = <<"hero", "print", "h115">>
    /\ \A i \in Idx : Rtn(i) = "hero" =>
          \A j \in 1..(i - 1) : Rtn(j) # "measurement"
    /\ Printed("Done!") =>
          /\ written = Outputs
          /\ Took(<<"hero", "save", "h112">>)
          /\ Took(<<"measurement", "save", "g220">>)
          /\ out[Len(out)] = "Done!"

\* C1 as stated: in a run in which no step fails, the hero image is fully built
\* before any step of the measurement image, each image goes through generate,
\* then draw, then annotate, then save, as separate phases in that order, and
\* "Done!" is printed only after both files are saved.
C1_StrictPhases ==
    status # "crashed" =>
        /\ ImagesInOrder
        /\ \A r \in Routines : Monotone(Ranks(r, StrictRank))

\* C1 amended: as C1, except that generating and drawing alternate panel by
\* panel: every draw step follows a generate step of its image, and all
\* generating and drawing precedes the annotation, which precedes the save,
\* which precedes the close.
C1_PanelPhases ==
    status # "crashed" =>
        /\ ImagesInOrder
        /\ \A r \in Routines : Monotone(Ranks(r, PanelRank))
        /\ \A i \in Idx : Kind(i) = "draw" =>
              \E j \in 1..(i - 1) :
                  Rtn(j) = Rtn(i) /\ Kind(j) \in {"random", "generate"}

C1_Witness ==
    /\ status = "exited"
    /\ Took(<<"hero", "draw", "h74">>)
    /\ Took(<<"hero", "generate", "l40">>)
    /\ Took(<<"measurement", "save", "g220">>)

\* ---- C2
\* C2: two executions of the script, started from any two states of the random
\* generator, hand the same data to the plotting library and write the same
\* files.
C2_SameOutput ==
    run > 1 =>
        /\ Agree(handed, prevHanded)
        /\ \A p \in written \cap prevWritten : fs[p] = prevFs[p]

C2_Witness ==
    /\ run = 2
    /\ status = "exited"
    /\ prevStatus = "exited"
    /\ Len(handed) = Len(prevHanded)
    /\ written = Outputs

\* ---- C3
\* C3: a failure ends the execution at once: the raising step is the last step
\* taken, a failure inside the hero image leaves the measurement image
\* unstarted and unwritten, "Done!" is not printed after a failure, and
\* "Created: <file>" is printed only for a file this execution has saved.
C3_FailureEndsRun ==
    /\ \A i \in Idx : Kind(i) = "raise" => (i = Len(trace) /\ status = "crashed")
    /\ status = "crashed" => (trace # <<>> /\ Kind(Len(trace)) = "raise")
    /\ (\E i \in Idx : Kind(i) = "raise" /\ Rtn(i) = "hero") =>
          /\ \A j \in Idx : Rtn(j) # "measurement"
          /\ MeasPath \notin written
          /\ fs[MeasPath] = fs0[MeasPath]
    /\ (\E i \in Idx : Kind(i) = "raise") => ~Printed("Done!")
    /\ Printed("Created: high-dimensional-coherence.png") => HeroPath \in written
    /\ Printed("Created: measurement-changes-system.png") => MeasPath \in written

C3_Witness ==
    /\ status = "crashed"
    /\ pc = "h112"
    /\ ~dirExists

\* ---- C4
\* C4: an execution writes only the two output paths, with dpi 150 and a 16x9
\* figure, replacing what was there; every other file stays as it was; a
\* successful execution writes both; and after a second successful execution
\* the set of files is that left by the first.
C4_Files ==
    /\ written \subseteq Outputs
    /\ \A p \in Paths \ written : fs[p] = fs0[p]
    /\ \A p \in written :
          /\ fs[p].kind = "png"
          /\ fs[p].dpi = 150
          /\ fs[p].size = <<16, 9>>
    /\ status = "exited" => written = Outputs
    /\ (status = "exited" /\ prevStatus = "exited") =>
          {p \in Paths : fs[p] # Absent} = {p \in Paths : prevFs[p] # Absent}

C4_Witness ==
    /\ run = 2
    /\ status = "exited"
    /\ prevStatus = "exited"
    /\ fs0[HeroPath].kind = "png"

\* ---- C7
\* C7: at most one figure is open; the figure is open when it is saved and when
\* it is closed, and it is closed only after its save; the hero figure is
\* closed before the measurement figure is opened; after a successful
\* execution no figure is open.
C7_Figures ==
    /\ Len(figs) <= 1
    /\ pc \in {"h112", "h114", "g220", "g222"} => Len(figs) = 1
    /\ \A i \in Idx : Kind(i) = "close" =>
          \E j \in 1..(i - 1) : Rtn(j) = Rtn(i) /\ Kind(j) = "save"
    /\ \A i \in Idx : trace[i] = <<"measurement", "figure", "g124">> =>
          \E j \in 1..(i - 1) : trace[j] = <<"hero", "close", "h114">>
    /\ status = "exited" => figs = <<>>

C7_Witness ==
    /\ pc = "g222"
    /\ status = "running"
    /\ Len(figs) = 1

\* ---- C5
\* whether the call of line 82 has returned
Returned == Took(<<"hero", "return", "l40">>)
\* the artists handed over so far
Artists == {handed[k][2] : k \in 1..Len(handed)}
\* the pairs of arrays one artist plots against each other have equal lengths
SameLengths(a) ==
    CASE a.kind = "scatter" ->
            Len(a.xs) = Len(a.ys) /\ Len(a.c) = Len(a.xs) /\ Len(a.s) = Len(a.xs)
      [] a.kind = "line" -> Len(a.xs) = Len(a.ys)
      [] a.kind = "line3d" -> Len(a.xs) = Len(a.ys) /\ Len(a.zs) = Len(a.xs)
      [] OTHER -> TRUE

\* C5: for every n_points >= 1, generate_lorenz_attractor(n_points) works on and
\* returns three arrays of length n_points that start at (1.0, 1.0, 1.0); the
\* time vector has the trajectory's length; and all arrays plotted against each
\* other have equal lengths.
C5_Lengths ==
    /\ pc = "l40" =>
          /\ n_points = lorenz_arg /\ n_points >= 1
          /\ Len(x) = n_points /\ Len(y) = n_points /\ Len(z) = n_points
          /\ At(x, 0) = Scale /\ At(y, 0) = Scale /\ At(z, 0) = Scale
    /\ Returned =>
          /\ lorenz_arg >= 1
          /\ Len(lx) = lorenz_arg /\ Len(ly) = lorenz_arg /\ Len(lz) = lorenz_arg
          /\ At(lx, 0) = Scale /\ At(ly, 0) = Scale /\ At(lz, 0) = Scale
    /\ (lorenz_arg >= 1 /\ status = "exited") => Returned
    /\ Took(<<"hero", "generate", "h85">>) => Len(t) = Len(lx)
    /\ Len(hero_y) = Len(hero_x) /\ Len(colors) = Len(hero_x) /\ Len(sizes) = Len(hero_x)
    /\ Len(signal1) = Len(t_proj) /\ Len(signal2) = Len(t_proj)
    /\ \A a \in Artists : SameLengths(a)

C5_Witness ==
    /\ status = "exited"
    /\ lorenz_arg = MaxN
    /\ \E a \in Artists : a.kind = "line" /\ a.from > 0 /\ Len(a.xs) < WINDOW

\* ---- C6
\* the Euler step as the claim writes it, from the values of the step before
StepX(xp, yp, zp) == xp + Mul(Mul(dt, sigma), yp - xp)
StepY(xp, yp, zp) == yp + Mul(dt, Mul(xp, rho - zp) - yp)
StepZ(xp, yp, zp) == zp + Mul(dt, Mul(xp, yp) - Mul(beta, zp))
\* elements 1..n-1 of the arrays follow from their predecessors
IsEuler(x_, y_, z_, n) ==
    \A i \in 1..(n - 1) :
        /\ At(x_, i) = StepX(At(x_, i - 1), At(y_, i - 1), At(z_, i - 1))
        /\ At(y_, i) = StepY(At(x_, i - 1), At(y_, i - 1), At(z_, i - 1))
        /\ At(z_, i) = StepZ(At(x_, i - 1), At(y_, i - 1), At(z_, i - 1))
EulerInv ==
    /\ pc = "l40" => IsEuler(x, y, z, li)
    /\ Returned => IsEuler(lx, ly, lz, Len(lx))
\* an iteration leaves the elements of smaller index as they were
KeepsEarlier ==
    (pc = "l40" /\ pc' = "l40") =>
        \A k \in 0..(li - 1) :
            At(x', k) = At(x, k) /\ At(y', k) = At(y, k) /\ At(z', k) = At(z, k)

\* C6: every element after the first is the forward Euler step (sigma = 10,
\* rho = 28, beta = 8/3, dt = 0.01) of the element before it, each of the
\* three updates reading only the values of the step before, and an iteration
\* changes no element of smaller index.
C6_Euler == [](EulerInv) /\ [][KeepsEarlier]_vars

C6_Witness ==
    /\ pc = "l40"
    /\ li >= 3
    /\ At(x, 2) # At(x, 1)

\* ---- C8
\* len(range(a, b, s))
RangeLen(a, b, s) == IF b <= a THEN 0 ELSE (b - a + s - 1) \div s
\* every loop runs its fixed number of iterations
LoopBounds ==
    /\ Count(<<"hero", "generate", "l40">>) <= lorenz_arg - 1
    /\ Returned => Count(<<"hero", "generate", "l40">>) = lorenz_arg - 1
    /\ Count(<<"hero", "draw", "h86">>) <= RangeLen(0, lorenz_arg - 1, STRIDE)
    /\ Took(<<"hero", "axes", "h86">>) =>
          Count(<<"hero", "draw", "h86">>) = RangeLen(0, lorenz_arg - 1, STRIDE)
    /\ Count(<<"measurement", "draw", "g138">>) <= NTraj
    /\ Took(<<"measurement", "axes", "g138">>) =>
          Count(<<"measurement", "draw", "g138">>) = NTraj
    /\ RangeLen(1, 10000, 1) = 9999
    /\ RangeLen(0, 10000 - 1, STRIDE) = 1250
    /\ STRIDE * (1250 - 1) = 9992
    /\ status = "exited" => out[Len(out)] = "Done!"
\* every execution ends, and without a failure it ends after "Done!"
Terminates ==
    \A r \in 1..MaxRuns :
        (run = r) ~> (run = r /\ (status = "exited" \/ Took(<<RoutineOf(pc), "raise", pc>>)))

\* C8: every loop is bounded by a fixed count (n_points - 1 Euler steps, one
\* segment per index 0, 8, 16, ... below n_points - 1, one trajectory per
\* index below n_trajectories), so every execution in which no call fails
\* reaches "Done!" and exits.
C8_Completion == [](LoopBounds) /\ Terminates

C8_Witness ==
    /\ status = "exited"
    /\ Count(<<"hero", "generate", "l40">>) = NLorenz - 1
    /\ Count(<<"hero", "draw", "h86">>) > 1
    /\ Count(<<"measurement", "draw", "g138">>) = NTraj

\* ---- C9
\* the part of a log that comes from routine r
By(r, h) == SelectSeq(h, LAMBDA e : e[1] = r)

\* C9: each routine seeds the generator before its first random draw, so what
\* a routine hands over and writes is the same whatever ran before it: any
\* two executions, whichever routines they call and in whichever order, agree
\* on each routine's data and on each file both have written.
C9_OrderIndependent ==
    /\ \A j \in Idx : Kind(j) = "random" =>
          \E i \in 1..(j - 1) :
              /\ Rtn(i) = Rtn(j) /\ Kind(i) = "seed"
              /\ \A m \in (i + 1)..(j - 1) : Kind(m) # "random"
    /\ \A r \in Routines : Agree(By(r, handed), By(r, prevHanded))
    /\ \A p \in written \cap prevWritten : fs[p] = prevFs[p]

C9_Witness ==
    /\ run = 2
    /\ status = "exited"
    /\ calls = <<"measurement", "hero">>
    /\ prevHanded # <<>>
    /\ prevHanded[1][1] = "hero"
    /\ Len(prevHanded) = Len(handed)
    /\ prevWritten = Outputs

\* ---- C10
\* the line segments of the hero image's Lorenz panel
HeroLines == {handed[k][2] : k \in {m \in 1..Len(handed) :
                  handed[m][1] = "hero" /\ handed[m][2].kind = "line"}}
\* the torus trajectories
TorusLines == {a \in Artists : a.kind = "line3d"}
\* the consecutive point pairs (j, j+1) a segment joins, named by j
PairsOf(a) == {a.from + m - 1 : m \in 1..(Len(a.xs) - 1)}
\* whether every channel of an RGBA colour lies in [0, 1]
ValidRGBA(c) == \A m \in 1..4 : 0 <= c[m] /\ c[m] <= Scale

\* C10: the segments [i, i+10) drawn at i = 0, 8, 16, ... < n-1, clipped to the
\* trajectory's end, read no index >= n and together join every consecutive
\* pair of points; each segment's intensity lies in [0.4, 1.0], each torus
\* brightness in [0.5, 1.0), and every colour is a valid RGBA value.
C10_Coverage ==
    /\ \A a \in HeroLines :
          /\ a.from <= Len(lx) - 2
          /\ a.from + Len(a.xs) <= Len(lx)
          /\ \A m \in 1..Len(a.xs) :
                a.xs[m] = At(lx, a.from + m - 1) /\ a.ys[m] = At(ly, a.from + m - 1)
          /\ Dec(4, 10) <= a.shade /\ a.shade <= Scale
          /\ ValidRGBA(a.color)
    /\ (Took(<<"hero", "axes", "h86">>) /\ Len(lx) >= 2) =>
          UNION {PairsOf(a) : a \in HeroLines} = 0..(Len(lx) - 2)
    /\ \A a \in TorusLines :
          /\ Dec(5, 10) <= a.shade /\ a.shade < Scale
          /\ ValidRGBA(a.color)

C10_Witness ==
    /\ status = "exited"
    /\ lorenz_arg = MaxN - 1
    /\ Cardinality(HeroLines) >= 3
    /\ Cardinality(TorusLines) = NTraj

====
